---------------------------- MODULE Spec2Model ----------------------------
(***************************************************************************)
(* The ledger of Textflow: account balances, the transaction log, posts    *)
(* and pricing settings, as kept by the three persistence services of the  *)
(* repository:                                                             *)
(*   "local"  MockDB     src/unnamed/part_003  (arrays + localStorage)     *)
(*   "ext1"   DBService  src/services/mockDb.ts (hosted store)             *)
(*   "ext2"   DBService  src/unnamed/part_002   (hosted store, later rev.) *)
(* A MockDB method runs to completion once its initial delay has elapsed   *)
(* (no await separates its reads from its writes), so it is one action.    *)
(* A DBService method awaits every store call, so it is one action per     *)
(* store call, with the values it read kept in the caller's frame.         *)
(*                                                                         *)
(* Money is a JavaScript number.  Amounts are whole currency units; sums   *)
(* and differences are rounded to nearest, ties to even, as IEEE-754 does, *)
(* with the significand narrowed from 53 bits to SignificandBits so that   *)
(* rounding happens within the amounts the model enumerates.               *)
(***************************************************************************)
EXTENDS Integers, Sequences, FiniteSets, TLC

\* ------------------------------------------------------------------ bounds
SignificandBits == 10      \* bits of significand kept by Fl (binary64: 53)
MaxTx == 2                 \* transactions appended in one run
MaxReact == 3              \* reactToPost calls in one run
MaxSettings == 1           \* updateSettings calls in one run
MaxProcess == 1            \* processWithdrawal calls in one run
MaxFeed == 1               \* getFeed calls in one run

\* --------------------------------------------------------------- constants
SeedAdminBalance == 10000  \* balance of the seeded / auto-fixed admin
DefaultMinWithdraw == 50
DefaultAdCostTenths == 1   \* adCostPer100kViews 0.1, in tenths of a unit
DefaultSponsorPriceTenths == 10 \* sponsorAdPricePer1kViews 1.0, in tenths

\* parseFloat of an empty or non-numeric field.  NaN is carried as a value
\* outside the range any amount or balance of the model reaches; arithmetic
\* and comparisons test for it before they compute.
NaN == -1048576

Variants == {"local", "ext1", "ext2"}
Accounts == {"u1", "admin"}
Ghost == "ghost"           \* an id no record carries
NoSession == "anon"        \* auth.getUser() returns no user
Posts == {"p1", "p2"}
Clients == {"c1", "c2"}    \* browser sessions issuing calls
Reactions == {"likes", "hearts", "hahas"}
Amounts == {-56, 56}
InitUserBalances == {100}
MinWithdrawChoices == {0, 100}
\* Amounts typed into the wallet and the sponsor dialog while settings change.
WalletAmounts == {20, 56, NaN}
SponsorAmounts == {56}
ViewAmounts == {20, 56}
\* What one getFeed of MockDB adds to the views of a post: nothing, or
\* floor(random * 500) + 100 if it is sponsored and floor(random * 5) + 1 if
\* it is not (the least and the greatest value of each range are kept).
SponsoredGrowth == {0, 100, 599}
RegularGrowth == {0, 1, 5}
NoPost == "none"

\* ------------------------------------------------------- number arithmetic
Abs(x) == IF x < 0 THEN -x ELSE x

RECURSIVE Pow2(_)
Pow2(n) == IF n = 0 THEN 1 ELSE 2 * Pow2(n - 1)

\* The spacing of representable numbers at magnitude a.
RECURSIVE UlpFrom(_, _)
UlpFrom(a, q) == IF a < q * Pow2(SignificandBits) THEN q ELSE UlpFrom(a, 2 * q)

\* Round to nearest representable, ties to the even significand.
Fl(x) ==
  LET a  == Abs(x)
      q  == UlpFrom(a, 1)
      lo == (a \div q) * q
      r  == a - lo
      m  == IF 2 * r < q THEN lo
            ELSE IF 2 * r > q THEN lo + q
            ELSE IF (lo \div q) % 2 = 0 THEN lo ELSE lo + q
  IN IF x < 0 THEN -m ELSE m

\* a + b and a - b on numbers: NaN if an operand is NaN.
FAdd(a, b) == IF a = NaN \/ b = NaN THEN NaN ELSE Fl(a + b)
FSub(a, b) == IF a = NaN \/ b = NaN THEN NaN ELSE Fl(a - b)

\* a < b on numbers: false if an operand is NaN.
Lt(a, b) == a # NaN /\ b # NaN /\ a < b


\* ------------------------------------------------------------------- state
VARIABLES
  variant,       \* which persistence service this deployment runs
  profiles,      \* accounts: MockDB.users / table profiles
  posts,         \* MockDB.posts / table posts
  transactions,  \* MockDB.transactions / table transactions, in insert order
  settings,      \* the settings singleton of the service
  call,          \* per client: the DBService call in flight and its frame
  last,          \* the call that returned in the step leading to this state
  issued,        \* calls issued so far, per bounded operation
  balanceBefore, \* per transaction: its owner's balance when the call was issued
  appUser,       \* App's user state: the signed-in account and its role as loaded
  gen,           \* the generateSamplePosts call: its environment, position, result
  wallet         \* the Wallet component: its deposit indicator, timer and await

vars == <<variant, profiles, posts, transactions, settings, call, last, issued, balanceBefore,
          appUser, gen, wallet>>

\* The state of the front end outside the ledger.
ui == <<appUser, gen>>

txlog == <<transactions, balanceBefore>>

store == <<profiles, posts, txlog, settings>>

SettingKeys == {"adCostPer100kViews", "sponsorAdPricePer1kViews", "minWithdraw"}

DEFAULT_SETTINGS ==
  [k \in SettingKeys |->
     CASE k = "adCostPer100kViews" -> DefaultAdCostTenths
       [] k = "sponsorAdPricePer1kViews" -> DefaultSponsorPriceTenths
       [] OTHER -> DefaultMinWithdraw]

\* Partial<SystemSettings>: the fields a caller passes to updateSettings.
Patches ==
  {[k \in {"minWithdraw"} |-> v] : v \in MinWithdrawChoices \cup {NaN}}
    \cup {[k \in {"adCostPer100kViews"} |-> 2]}
    \cup {[k \in {"sponsorAdPricePer1kViews", "minWithdraw"} |-> 20]}

\* { ...this.settings, ...newSettings }
Merge(old, patch) ==
  [k \in DOMAIN old \cup DOMAIN patch |-> IF k \in DOMAIN patch THEN patch[k] ELSE old[k]]

Snapshot == [profiles |-> profiles, posts |-> posts, transactions |-> transactions,
             settings |-> settings]

NoCall == [op |-> "none"]

\* App before Auth.onLogin / after handleLogout: user is null.
LoggedOut == [account |-> NoSession, role |-> "NONE"]

\* No generateSamplePosts call made yet.
GenIdle == [pc |-> "idle"]

\* Wallet as mounted: qrState 'IDLE', the deposit tab shown, no timer set and
\* no deposit awaited.  calls counts the deposit calls issued since the last
\* click; mount tells one page load from the next.
WalletInit ==
  [qrState |-> "IDLE", tab |-> "DEPOSIT", timer |-> FALSE, awaiting |-> FALSE,
   amount |-> 0, calls |-> 0, mount |-> 0]

\* The callback of handleDeposit's timer calls deposit ...
WalletIssued(w) ==
  IF w.timer THEN [w EXCEPT !.timer = FALSE, !.awaiting = TRUE, !.calls = @ + 1] ELSE w

\* Mutant: the indicator shows SUCCESS whether the deposit resolved or threw.
WalletSettledAlwaysSuccess(w, result) ==
  IF w.awaiting THEN [w EXCEPT !.awaiting = FALSE, !.qrState = "SUCCESS"] ELSE w

\* ... and, when the awaited deposit resolves or throws, sets qrState.
WalletSettled(w, result) ==
  IF w.awaiting
    THEN [w EXCEPT !.awaiting = FALSE,
                   !.qrState = IF result = "ok" THEN "SUCCESS" ELSE "IDLE"]
    ELSE w

\* A client with no DBService call in flight.
Idle == [pc |-> "idle", op |-> "none"]

\* The frame of a DBService call: where it stands and what it has read.
Frame(op, pc, args) ==
  [pc |-> pc, op |-> op, args |-> args, pre |-> Snapshot,
   rdBalance |-> 0, rdVal |-> 0, rdTx |-> NoCall]

\* The record of a call that has returned: its arguments, whether it threw
\* (result is "ok" or the error), and the store as it was when it was issued.
Returned(op, args, result, pre) ==
  [op |-> op, args |-> args, result |-> result, pre |-> pre]

\* One row appended to the log; before is its owner's balance when the call
\* that appends it was issued.
AppendTx(tx, before) ==
  /\ transactions' = Append(transactions, tx)
  /\ balanceBefore' = Append(balanceBefore, before)

\* Mutant: the status write also clears the amount of the row.
SetStatusClearAmount(txId, status) ==
  /\ transactions' = IF txId \in DOMAIN transactions
                       THEN [transactions EXCEPT ![txId].status = status,
                                                 ![txId].amount = 0]
                       ELSE transactions
  /\ UNCHANGED balanceBefore

SetStatus(txId, status) ==
  /\ transactions' = IF txId \in DOMAIN transactions
                       THEN [transactions EXCEPT ![txId].status = status]
                       ELSE transactions
  /\ UNCHANGED balanceBefore

NewTx(userId, type, amount, status, postId) ==
  [userId |-> userId, type |-> type, amount |-> amount, status |-> status,
   postId |-> postId]

InitProfiles(b) ==
  [a \in Accounts |->
     IF a = "admin"
       THEN [balance |-> SeedAdminBalance, role |-> "ADMIN", adminEmail |-> TRUE]
       ELSE [balance |-> b, role |-> "USER", adminEmail |-> FALSE]]

InitPosts ==
  [p \in Posts |->
     [userId |-> IF p = "p1" THEN "u1" ELSE "admin", views |-> 0, sponsored |-> FALSE,
      likes |-> 0, hearts |-> 0, hahas |-> 0]]

Init ==
  /\ variant \in Variants
  /\ \E b \in InitUserBalances : profiles = InitProfiles(b)
  /\ posts = InitPosts
  /\ transactions = <<>>
  /\ settings = DEFAULT_SETTINGS
  /\ call = [c \in Clients |-> Idle]
  /\ last = NoCall
  /\ issued = [react |-> [x \in Posts \X Reactions |-> 0], settings |-> 0, process |-> 0,
               feed |-> 0]
  /\ balanceBefore = <<>>
  /\ appUser = LoggedOut
  /\ gen = GenIdle
  /\ wallet = WalletInit

\* ------------------------------------------------------------ view boost
\* Math.floor((amount / adCostPer100kViews) * 100000), then
\* Math.floor(estimatedViews * 0.1); the rate is kept in tenths of a unit.
BoostTenPercent(amount, s) ==
  ((amount * 1000000) \div s["adCostPer100kViews"]) \div 10

\* Math.floor((amount / sponsorAdPricePer1kViews) * 1000), added in full.
BoostFull(amount, s) == (amount * 10000) \div s["sponsorAdPricePer1kViews"]

\* --------------------------------------------------- MockDB (local variant)
AllIdle == \A c \in Clients : call[c].pc = "idle"

RECURSIVE SumOver(_, _)
SumOver(f, S) ==
  IF S = {} THEN 0 ELSE LET x == CHOOSE y \in S : TRUE IN f[x] + SumOver(f, S \ {x})

ReactIssued == SumOver(issued.react, Posts \X Reactions)

SetBalance(P, a, b) == [P EXCEPT ![a].balance = b]

\* Mutant: a reaction also counts as a view.
LocalReactToPostCountsView(postId, reaction) ==
  /\ variant = "local"
  /\ ReactIssued < MaxReact
  /\ issued' = [issued EXCEPT !.react[<<postId, reaction>>] = @ + 1]
  /\ posts' = [posts EXCEPT ![postId][reaction] = @ + 1, ![postId].views = @ + 1]
  /\ last' = Returned("reactToPost", [postId |-> postId, reaction |-> reaction], "ok", Snapshot)
  /\ UNCHANGED <<variant, ui, wallet, profiles, txlog, settings, call>>

\* MockDB.reactToPost
LocalReactToPost(postId, reaction) ==
  /\ variant = "local"
  /\ ReactIssued < MaxReact
  /\ issued' = [issued EXCEPT !.react[<<postId, reaction>>] = @ + 1]
  /\ posts' = IF postId \in Posts
                THEN [posts EXCEPT ![postId][reaction] = @ + 1]
                ELSE posts
  /\ last' = Returned("reactToPost", [postId |-> postId, reaction |-> reaction], "ok", Snapshot)
  /\ UNCHANGED <<variant, ui, wallet, profiles, txlog, settings, call>>

\* MockDB.getFeed: simulated traffic, then the list of posts.
LocalGetFeed(growth) ==
  /\ variant = "local"
  /\ issued.feed < MaxFeed
  /\ issued' = [issued EXCEPT !.feed = @ + 1]
  /\ \A p \in Posts :
       growth[p] \in IF posts[p].sponsored THEN SponsoredGrowth ELSE RegularGrowth
  /\ posts' = [p \in Posts |-> [posts[p] EXCEPT !.views = @ + growth[p]]]
  /\ last' = Returned("getFeed", [growth |-> growth], "ok", Snapshot)
  /\ UNCHANGED <<variant, ui, wallet, profiles, txlog, settings, call>>

\* MockDB.sponsorPost: the payer is the owner of the post.
LocalSponsorPost(postId, amount) ==
  LET found == postId \in Posts
      user  == IF found THEN posts[postId].userId ELSE Ghost
      args  == [postId |-> postId, amount |-> amount, userId |-> user]
  IN
  /\ variant = "local"
  /\ Len(transactions) < MaxTx
  /\ IF ~found
       THEN /\ last' = Returned("sponsorPost", args, "ok", Snapshot)
            /\ UNCHANGED store
       ELSE IF Lt(profiles[user].balance, amount)
       THEN /\ last' = Returned("sponsorPost", args, "Insufficient balance", Snapshot)
            /\ UNCHANGED store
       ELSE /\ profiles' = SetBalance(profiles, user, FSub(profiles[user].balance, amount))
            /\ posts' = [posts EXCEPT ![postId].sponsored = TRUE,
                                      ![postId].views = @ + BoostTenPercent(amount, settings)]
            /\ AppendTx(NewTx(user, "AD_SPEND", amount, "COMPLETED", postId),
                        profiles[user].balance)
            /\ last' = Returned("sponsorPost", args, "ok", Snapshot)
            /\ UNCHANGED settings
  /\ UNCHANGED <<variant, ui, wallet, call, issued>>

\* MockDB.deposit
LocalDeposit(userId, amount) ==
  LET args == [userId |-> userId, amount |-> amount] IN
  /\ variant = "local"
  /\ Len(transactions) < MaxTx
  /\ IF userId \notin Accounts
       THEN UNCHANGED store
       ELSE /\ profiles' = SetBalance(profiles, userId, FAdd(profiles[userId].balance, amount))
            /\ AppendTx(NewTx(userId, "DEPOSIT", amount, "COMPLETED", NoPost),
                        profiles[userId].balance)
            /\ UNCHANGED <<posts, settings>>
  /\ last' = Returned("deposit", args, "ok", Snapshot)
  /\ wallet' = WalletSettled(WalletIssued(wallet), "ok")
  /\ UNCHANGED <<variant, ui, call, issued>>

\* Mutant: the debit is applied before the balance check throws.
LocalRequestWithdrawDebitFirst(userId, amount) ==
  LET args == [userId |-> userId, amount |-> amount]
      err  == IF Lt(profiles[userId].balance, amount) THEN "Insufficient balance"
              ELSE IF Lt(amount, settings["minWithdraw"]) THEN "Minimum withdraw"
              ELSE "ok"
  IN
  /\ variant = "local"
  /\ Len(transactions) < MaxTx
  /\ profiles' = SetBalance(profiles, userId, FSub(profiles[userId].balance, amount))
  /\ IF err # "ok"
       THEN UNCHANGED txlog
       ELSE AppendTx(NewTx(userId, "WITHDRAW", amount, "PENDING", NoPost),
                     profiles[userId].balance)
  /\ last' = Returned("requestWithdraw", args, err, Snapshot)
  /\ UNCHANGED <<variant, ui, wallet, posts, settings, call, issued>>

\* MockDB.requestWithdraw
LocalRequestWithdraw(userId, amount) ==
  LET args == [userId |-> userId, amount |-> amount]
      err  == IF userId \notin Accounts THEN "User not found"
              ELSE IF Lt(profiles[userId].balance, amount) THEN "Insufficient balance"
              ELSE IF Lt(amount, settings["minWithdraw"]) THEN "Minimum withdraw"
              ELSE "ok"
  IN
  /\ variant = "local"
  /\ Len(transactions) < MaxTx
  /\ IF err # "ok"
       THEN UNCHANGED store
       ELSE /\ profiles' = SetBalance(profiles, userId, FSub(profiles[userId].balance, amount))
            /\ AppendTx(NewTx(userId, "WITHDRAW", amount, "PENDING", NoPost),
                        profiles[userId].balance)
            /\ UNCHANGED <<posts, settings>>
  /\ last' = Returned("requestWithdraw", args, err, Snapshot)
  /\ UNCHANGED <<variant, ui, wallet, call, issued>>

\* Mutant: the spread is written the other way round, so the old fields win.
LocalUpdateSettingsOldWins(patch) ==
  /\ variant = "local"
  /\ issued.settings < MaxSettings
  /\ issued' = [issued EXCEPT !.settings = @ + 1]
  /\ settings' = Merge(patch, settings)
  /\ last' = Returned("updateSettings", [patch |-> patch], "ok", Snapshot)
  /\ UNCHANGED <<variant, ui, wallet, profiles, posts, txlog, call>>

\* MockDB.updateSettings
LocalUpdateSettings(patch) ==
  /\ variant = "local"
  /\ issued.settings < MaxSettings
  /\ issued' = [issued EXCEPT !.settings = @ + 1]
  /\ settings' = Merge(settings, patch)
  /\ last' = Returned("updateSettings", [patch |-> patch], "ok", Snapshot)
  /\ UNCHANGED <<variant, ui, wallet, profiles, posts, txlog, call>>

\* MockDB.processWithdrawal: txId is the position of the transaction in the
\* log; the status is overwritten whatever the transaction's kind and status.
LocalProcessWithdrawal(txId, approved) ==
  LET args == [txId |-> txId, approved |-> approved] IN
  /\ variant = "local"
  /\ issued.process < MaxProcess
  /\ issued' = [issued EXCEPT !.process = @ + 1]
  /\ IF txId \notin DOMAIN transactions
       THEN UNCHANGED store
       ELSE LET tx == transactions[txId] IN
            /\ SetStatus(txId, IF approved THEN "COMPLETED" ELSE "REJECTED")
            /\ profiles' = IF ~approved /\ tx.userId \in Accounts
                             THEN SetBalance(profiles, tx.userId,
                                             FAdd(profiles[tx.userId].balance, tx.amount))
                             ELSE profiles
            /\ UNCHANGED <<posts, settings>>
  /\ last' = Returned("processWithdrawal", args, "ok", Snapshot)
  /\ UNCHANGED <<variant, ui, wallet, call>>

LocalNext ==
  \/ \E p \in Posts, a \in Amounts : LocalSponsorPost(p, a)
  \/ \E u \in Accounts, a \in Amounts : LocalDeposit(u, a)
  \/ \E u \in Accounts, a \in Amounts : LocalRequestWithdraw(u, a)
  \/ \E t \in 1..MaxTx, b \in BOOLEAN : LocalProcessWithdrawal(t, b)

\* ------------------------------------------- DBService (hosted variants)
Ext == variant \in {"ext1", "ext2"}

At(c, label) == Ext /\ call[c].pc = label

\* The call of client c returns (result "ok") or throws (result the error).
Return(c, result) ==
  /\ last' = Returned(call[c].op, call[c].args, result, call[c].pre)
  /\ call' = [call EXCEPT ![c] = Idle]

Goto(c, label) ==
  /\ call' = [call EXCEPT ![c].pc = label]
  /\ last' = NoCall

\* DBService.getUserProfile, as the ledger methods call it (no emailFallback):
\* the balance it returns.  A failed read, or no row, yields the placeholder
\* profile with balance 0; part_002 resets an admin-email profile whose role
\* is not ADMIN to role ADMIN and the seed balance before returning it.
OutOfSync(userId) ==
  variant = "ext2" /\ profiles[userId].adminEmail /\ profiles[userId].role # "ADMIN"

ProfileBalance(userId, err) ==
  IF err \/ userId \notin Accounts THEN 0
  ELSE IF OutOfSync(userId) THEN SeedAdminBalance
  ELSE profiles[userId].balance

\* The profiles table after getUserProfile(userId).
ProfilesAfterRead(userId, err) ==
  IF ~err /\ userId \in Accounts /\ OutOfSync(userId)
    THEN [profiles EXCEPT ![userId].role = "ADMIN", ![userId].balance = SeedAdminBalance]
    ELSE profiles

\* The balance, when the call of c was issued, of the account it names.
IssueBalance(c) == call[c].pre.profiles[call[c].args.userId].balance

\* from('profiles').update({ balance }).eq('id', userId)
UpdateBalance(userId, b, err) ==
  IF err \/ userId \notin Accounts THEN profiles ELSE SetBalance(profiles, userId, b)

ReadProfile(c, userId, err) ==
  /\ profiles' = ProfilesAfterRead(userId, err)
  /\ UNCHANGED <<posts, txlog, settings>>

\* --- deposit
BeginDeposit(c, userId, amount) ==
  /\ Ext /\ call[c].pc = "idle"
  /\ Len(transactions) < MaxTx
  /\ call' = [call EXCEPT ![c] = Frame("deposit", "dep_insert",
                                       [userId |-> userId, amount |-> amount])]
  /\ last' = NoCall
  /\ wallet' = WalletIssued(wallet)
  /\ UNCHANGED <<variant, ui, store, issued>>

\* Mutant: the result of the insert is not looked at.
DepInsertIgnoreError(c, err) ==
  /\ At(c, "dep_insert")
  /\ IF err
       THEN UNCHANGED txlog
       ELSE AppendTx(NewTx(call[c].args.userId, "DEPOSIT", call[c].args.amount,
                           "COMPLETED", NoPost), IssueBalance(c))
  /\ Goto(c, "dep_profile")
  /\ UNCHANGED <<variant, ui, wallet, profiles, posts, settings, issued>>

DepInsert(c, err) ==
  /\ At(c, "dep_insert")
  /\ IF err
       THEN /\ Return(c, "store error") /\ UNCHANGED store
            /\ wallet' = WalletSettled(wallet, "store error")
       ELSE /\ AppendTx(NewTx(call[c].args.userId, "DEPOSIT", call[c].args.amount,
                              "COMPLETED", NoPost), IssueBalance(c))
            /\ Goto(c, "dep_profile")
            /\ UNCHANGED <<profiles, posts, settings, wallet>>
  /\ UNCHANGED <<variant, ui, issued>>

DepProfile(c, err) ==
  /\ At(c, "dep_profile")
  /\ ReadProfile(c, call[c].args.userId, err)
  /\ call' = [call EXCEPT ![c].pc = "dep_update",
                          ![c].rdBalance = ProfileBalance(call[c].args.userId, err)]
  /\ last' = NoCall
  /\ UNCHANGED <<variant, ui, wallet, issued>>

\* Mutant: a failed balance write removes the row just inserted and throws.
DepUpdateRollback(c, err) ==
  /\ At(c, "dep_update")
  /\ profiles' = UpdateBalance(call[c].args.userId,
                               FAdd(call[c].rdBalance, call[c].args.amount), err)
  /\ IF err
       THEN /\ transactions' = SubSeq(transactions, 1, Len(transactions) - 1)
            /\ balanceBefore' = SubSeq(balanceBefore, 1, Len(balanceBefore) - 1)
            /\ Return(c, "store error")
            /\ wallet' = WalletSettled(wallet, "store error")
       ELSE /\ UNCHANGED txlog /\ Return(c, "ok")
            /\ wallet' = WalletSettled(wallet, "ok")
  /\ UNCHANGED <<variant, ui, posts, settings, issued>>

\* Mutant: the credit is applied to the balance as it is at the write.
DepUpdateAtomic(c, err) ==
  /\ At(c, "dep_update")
  /\ profiles' = UpdateBalance(call[c].args.userId,
                               FAdd(profiles[call[c].args.userId].balance,
                                    call[c].args.amount), err)
  /\ Return(c, "ok")
  /\ wallet' = WalletSettled(wallet, "ok")
  /\ UNCHANGED <<variant, ui, posts, txlog, settings, issued>>

\* Mutant: the new balance is the amount alone, not the balance read plus it.
DepUpdateOverwrite(c, err) ==
  /\ At(c, "dep_update")
  /\ profiles' = UpdateBalance(call[c].args.userId, call[c].args.amount, err)
  /\ Return(c, "ok")
  /\ wallet' = WalletSettled(wallet, "ok")
  /\ UNCHANGED <<variant, ui, posts, txlog, settings, issued>>

DepUpdate(c, err) ==
  /\ At(c, "dep_update")
  /\ profiles' = UpdateBalance(call[c].args.userId,
                               FAdd(call[c].rdBalance, call[c].args.amount), err)
  /\ Return(c, "ok")
  /\ wallet' = WalletSettled(wallet, "ok")
  /\ UNCHANGED <<variant, ui, posts, txlog, settings, issued>>

\* --- requestWithdraw
BeginRequestWithdraw(c, userId, amount) ==
  /\ Ext /\ call[c].pc = "idle"
  /\ Len(transactions) < MaxTx
  /\ call' = [call EXCEPT ![c] = Frame("requestWithdraw", "wd_profile",
                                       [userId |-> userId, amount |-> amount])]
  /\ last' = NoCall
  /\ UNCHANGED <<variant, ui, wallet, store, issued>>

WdProfile(c, err) ==
  LET b == ProfileBalance(call[c].args.userId, err) IN
  /\ At(c, "wd_profile")
  /\ ReadProfile(c, call[c].args.userId, err)
  /\ IF Lt(b, call[c].args.amount)
       THEN Return(c, "Insufficient balance")
       ELSE /\ call' = [call EXCEPT ![c].pc = "wd_update", ![c].rdBalance = b]
            /\ last' = NoCall
  /\ UNCHANGED <<variant, ui, wallet, issued>>

\* Mutant: the request is logged without the balance being debited.
WdUpdateNoDebit(c, err) ==
  /\ At(c, "wd_update")
  /\ Goto(c, "wd_insert")
  /\ UNCHANGED <<variant, ui, wallet, store, issued>>

WdUpdate(c, err) ==
  /\ At(c, "wd_update")
  /\ profiles' = UpdateBalance(call[c].args.userId,
                               FSub(call[c].rdBalance, call[c].args.amount), err)
  /\ Goto(c, "wd_insert")
  /\ UNCHANGED <<variant, ui, wallet, posts, txlog, settings, issued>>

\* Mutant: the DBService logs the request as already COMPLETED.
WdInsertCompleted(c, err) ==
  /\ At(c, "wd_insert")
  /\ IF err
       THEN Return(c, "store error") /\ UNCHANGED store
       ELSE /\ AppendTx(NewTx(call[c].args.userId, "WITHDRAW", call[c].args.amount,
                              IF Ext THEN "COMPLETED" ELSE "PENDING", NoPost),
                        IssueBalance(c))
            /\ Return(c, "ok")
            /\ UNCHANGED <<profiles, posts, settings>>
  /\ UNCHANGED <<variant, ui, wallet, issued>>

WdInsert(c, err) ==
  /\ At(c, "wd_insert")
  /\ IF err
       THEN Return(c, "store error") /\ UNCHANGED store
       ELSE /\ AppendTx(NewTx(call[c].args.userId, "WITHDRAW", call[c].args.amount,
                              "PENDING", NoPost), IssueBalance(c))
            /\ Return(c, "ok")
            /\ UNCHANGED <<profiles, posts, settings>>
  /\ UNCHANGED <<variant, ui, wallet, issued>>

\* --- sponsorPost: the payer is the signed-in user of the calling session.
BeginSponsorPost(c, session, postId, amount) ==
  LET args == [postId |-> postId, amount |-> amount, userId |-> session] IN
  /\ Ext /\ call[c].pc = "idle"
  /\ Len(transactions) < MaxTx
  /\ IF session = NoSession
       THEN /\ last' = Returned("sponsorPost", args, "Not logged in", Snapshot)
            /\ UNCHANGED call
       ELSE /\ call' = [call EXCEPT ![c] = Frame("sponsorPost", "sp_profile", args)]
            /\ last' = NoCall
  /\ UNCHANGED <<variant, ui, wallet, store, issued>>

\* Mutant: the balance is read but never compared with the amount.
SpProfileNoCheck(c, err) ==
  /\ At(c, "sp_profile")
  /\ ReadProfile(c, call[c].args.userId, err)
  /\ call' = [call EXCEPT ![c].pc = "sp_insert",
                          ![c].rdBalance = ProfileBalance(call[c].args.userId, err)]
  /\ last' = NoCall
  /\ UNCHANGED <<variant, ui, wallet, issued>>

SpProfile(c, err) ==
  LET b == ProfileBalance(call[c].args.userId, err) IN
  /\ At(c, "sp_profile")
  /\ ReadProfile(c, call[c].args.userId, err)
  /\ IF Lt(b, call[c].args.amount)
       THEN Return(c, "Insufficient balance")
       ELSE /\ call' = [call EXCEPT ![c].pc = "sp_insert", ![c].rdBalance = b]
            /\ last' = NoCall
  /\ UNCHANGED <<variant, ui, wallet, issued>>

\* Mutant: the row names the owner of the post, not the signed-in caller.
SpInsertOwner(c, err) ==
  /\ At(c, "sp_insert")
  /\ IF err
       THEN Return(c, "store error") /\ UNCHANGED store
       ELSE /\ AppendTx(NewTx(posts[call[c].args.postId].userId, "AD_SPEND",
                              call[c].args.amount, "COMPLETED", call[c].args.postId),
                        IssueBalance(c))
            /\ Goto(c, "sp_balance")
            /\ UNCHANGED <<profiles, posts, settings>>
  /\ UNCHANGED <<variant, ui, wallet, issued>>

SpInsert(c, err) ==
  /\ At(c, "sp_insert")
  /\ IF err
       THEN Return(c, "store error") /\ UNCHANGED store
       ELSE /\ AppendTx(NewTx(call[c].args.userId, "AD_SPEND", call[c].args.amount,
                              "COMPLETED", call[c].args.postId), IssueBalance(c))
            /\ Goto(c, "sp_balance")
            /\ UNCHANGED <<profiles, posts, settings>>
  /\ UNCHANGED <<variant, ui, wallet, issued>>

\* Mutant: the debit is applied to the balance as it is at the write.
SpBalanceAtomic(c, err) ==
  /\ At(c, "sp_balance")
  /\ profiles' = UpdateBalance(call[c].args.userId,
                               FSub(profiles[call[c].args.userId].balance,
                                    call[c].args.amount), err)
  /\ Goto(c, "sp_views")
  /\ UNCHANGED <<variant, ui, wallet, posts, txlog, settings, issued>>

SpBalance(c, err) ==
  /\ At(c, "sp_balance")
  /\ profiles' = UpdateBalance(call[c].args.userId,
                               FSub(call[c].rdBalance, call[c].args.amount), err)
  /\ Goto(c, "sp_views")
  /\ UNCHANGED <<variant, ui, wallet, posts, txlog, settings, issued>>

\* postData?.views || 0
SpViews(c, err) ==
  /\ At(c, "sp_views")
  /\ call' = [call EXCEPT ![c].pc = "sp_post",
                          ![c].rdVal = IF err \/ call[c].args.postId \notin Posts
                                         THEN 0 ELSE posts[call[c].args.postId].views]
  /\ last' = NoCall
  /\ UNCHANGED <<variant, ui, wallet, store, issued>>

\* Mutant: the revision in part_002 keeps the ten-percent formula.
BoostTenPercentEverywhere(amount) == BoostTenPercent(amount, settings)

Boost(amount) ==
  IF variant = "ext2" THEN BoostFull(amount, settings) ELSE BoostTenPercent(amount, settings)

\* Mutant: the views are raised but the sponsored flag is not set.
SpPostNoFlag(c, err) ==
  LET p == call[c].args.postId IN
  /\ At(c, "sp_post")
  /\ posts' = IF err \/ p \notin Posts THEN posts
              ELSE [posts EXCEPT ![p].views = call[c].rdVal + Boost(call[c].args.amount)]
  /\ Return(c, "ok")
  /\ UNCHANGED <<variant, ui, wallet, profiles, txlog, settings, issued>>

SpPost(c, err) ==
  LET p == call[c].args.postId IN
  /\ At(c, "sp_post")
  /\ posts' = IF err \/ p \notin Posts THEN posts
              ELSE [posts EXCEPT ![p].sponsored = TRUE,
                                 ![p].views = call[c].rdVal + Boost(call[c].args.amount)]
  /\ Return(c, "ok")
  /\ UNCHANGED <<variant, ui, wallet, profiles, txlog, settings, issued>>

\* --- getPendingWithdrawals: the rows of kind WITHDRAW with status PENDING
\* (their indexes in the log).
getPendingWithdrawals(log) ==
  {t \in DOMAIN log : log[t].type = "WITHDRAW" /\ log[t].status = "PENDING"}

\* --- processWithdrawal
BeginProcessWithdrawal(c, txId, approved) ==
  /\ Ext /\ call[c].pc = "idle"
  /\ issued.process < MaxProcess
  /\ issued' = [issued EXCEPT !.process = @ + 1]
  /\ call' = [call EXCEPT ![c] = Frame("processWithdrawal", "pw_status",
                                       [txId |-> txId, approved |-> approved])]
  /\ last' = NoCall
  /\ UNCHANGED <<variant, ui, wallet, store>>

\* Mutant: a rejection refunds but leaves the row PENDING.
PwStatusRejectStaysPending(c, err) ==
  LET t == call[c].args.txId IN
  /\ At(c, "pw_status")
  /\ IF err
       THEN Return(c, "store error") /\ UNCHANGED store
       ELSE /\ SetStatus(t, IF call[c].args.approved THEN "COMPLETED" ELSE "PENDING")
            /\ IF call[c].args.approved THEN Return(c, "ok") ELSE Goto(c, "pw_select")
            /\ UNCHANGED <<profiles, posts, settings>>
  /\ UNCHANGED <<variant, ui, wallet, issued>>

\* Mutant: an approval goes on to the refund as a rejection does.
PwStatusAlwaysRefund(c, err) ==
  LET t == call[c].args.txId IN
  /\ At(c, "pw_status")
  /\ SetStatus(t, IF call[c].args.approved THEN "COMPLETED" ELSE "REJECTED")
  /\ Goto(c, "pw_select")
  /\ UNCHANGED <<variant, ui, wallet, profiles, posts, settings, issued>>

PwStatus(c, err) ==
  LET t == call[c].args.txId IN
  /\ At(c, "pw_status")
  /\ IF err
       THEN Return(c, "store error") /\ UNCHANGED store
       ELSE /\ SetStatus(t, IF call[c].args.approved THEN "COMPLETED" ELSE "REJECTED")
            /\ IF call[c].args.approved THEN Return(c, "ok") ELSE Goto(c, "pw_select")
            /\ UNCHANGED <<profiles, posts, settings>>
  /\ UNCHANGED <<variant, ui, wallet, issued>>

PwSelect(c, err) ==
  LET t == call[c].args.txId IN
  /\ At(c, "pw_select")
  /\ IF err \/ t \notin DOMAIN transactions
       THEN Return(c, "ok")
       ELSE /\ call' = [call EXCEPT ![c].pc = "pw_profile",
                                    ![c].rdTx = [userId |-> transactions[t].userId,
                                                 amount |-> transactions[t].amount]]
            /\ last' = NoCall
  /\ UNCHANGED <<variant, ui, wallet, store, issued>>

PwProfile(c, err) ==
  /\ At(c, "pw_profile")
  /\ ReadProfile(c, call[c].rdTx.userId, err)
  /\ call' = [call EXCEPT ![c].pc = "pw_refund",
                          ![c].rdBalance = ProfileBalance(call[c].rdTx.userId, err)]
  /\ last' = NoCall
  /\ UNCHANGED <<variant, ui, wallet, issued>>

\* Mutant: the refund restores the balance the account had when the
\* withdrawal was requested instead of adding to the balance just read.
PwRefundRestore(c, err) ==
  /\ At(c, "pw_refund")
  /\ profiles' = UpdateBalance(call[c].rdTx.userId, balanceBefore[call[c].args.txId], err)
  /\ Return(c, "ok")
  /\ UNCHANGED <<variant, ui, wallet, posts, txlog, settings, issued>>

\* mockDb.ts ignores the result of the refund write; part_002 throws on it.
PwRefund(c, err) ==
  /\ At(c, "pw_refund")
  /\ profiles' = UpdateBalance(call[c].rdTx.userId,
                               FAdd(call[c].rdBalance, call[c].rdTx.amount), err)
  /\ Return(c, IF err /\ variant = "ext2" THEN "Refund Failed" ELSE "ok")
  /\ UNCHANGED <<variant, ui, wallet, posts, txlog, settings, issued>>

\* --- reactToPost
BeginReactToPost(c, postId, reaction) ==
  /\ Ext /\ call[c].pc = "idle"
  /\ ReactIssued < MaxReact
  /\ issued' = [issued EXCEPT !.react[<<postId, reaction>>] = @ + 1]
  /\ call' = [call EXCEPT ![c] = Frame("reactToPost", "re_select",
                                       [postId |-> postId, reaction |-> reaction])]
  /\ last' = NoCall
  /\ UNCHANGED <<variant, ui, wallet, store>>

ReSelect(c, err) ==
  LET p == call[c].args.postId IN
  /\ At(c, "re_select")
  /\ IF err \/ p \notin Posts
       THEN Return(c, "ok")
       ELSE /\ call' = [call EXCEPT ![c].pc = "re_update",
                                    ![c].rdVal = posts[p][call[c].args.reaction]]
            /\ last' = NoCall
  /\ UNCHANGED <<variant, ui, wallet, store, issued>>

\* Mutant: the increment is applied to the counter as it is at the write.
ReUpdateAtomic(c, err) ==
  LET p == call[c].args.postId IN
  /\ At(c, "re_update")
  /\ posts' = IF err \/ p \notin Posts THEN posts
              ELSE [posts EXCEPT ![p][call[c].args.reaction] = @ + 1]
  /\ Return(c, "ok")
  /\ UNCHANGED <<variant, ui, wallet, profiles, txlog, settings, issued>>

\* Mutant: the counter is written back as it was read.
ReUpdateNoIncrement(c, err) ==
  LET p == call[c].args.postId IN
  /\ At(c, "re_update")
  /\ posts' = IF err \/ p \notin Posts THEN posts
              ELSE [posts EXCEPT ![p][call[c].args.reaction] = call[c].rdVal]
  /\ Return(c, "ok")
  /\ UNCHANGED <<variant, ui, wallet, profiles, txlog, settings, issued>>

ReUpdate(c, err) ==
  LET p == call[c].args.postId IN
  /\ At(c, "re_update")
  /\ posts' = IF err \/ p \notin Posts THEN posts
              ELSE [posts EXCEPT ![p][call[c].args.reaction] = call[c].rdVal + 1]
  /\ Return(c, "ok")
  /\ UNCHANGED <<variant, ui, wallet, profiles, txlog, settings, issued>>

\* --- getFeed: one select of the posts table, nothing written.
ExtGetFeed ==
  /\ Ext
  /\ issued.feed < MaxFeed
  /\ issued' = [issued EXCEPT !.feed = @ + 1]
  /\ last' = Returned("getFeed", [growth |-> [p \in Posts |-> 0]], "ok", Snapshot)
  /\ UNCHANGED <<variant, ui, wallet, store, call>>

\* --- updateSettings: the settings are a field of the service object; the
\* method assigns it before its first await.
ExtUpdateSettings(patch) ==
  /\ Ext /\ AllIdle
  /\ issued.settings < MaxSettings
  /\ issued' = [issued EXCEPT !.settings = @ + 1]
  /\ settings' = Merge(settings, patch)
  /\ last' = Returned("updateSettings", [patch |-> patch], "ok", Snapshot)
  /\ UNCHANGED <<variant, ui, wallet, profiles, posts, txlog, call>>

SeqClient == "c1"

ExtBegin(c) ==
  \/ \E u \in Accounts, a \in Amounts : BeginDeposit(c, u, a)
  \/ \E u \in Accounts, a \in Amounts : BeginRequestWithdraw(c, u, a)
  \/ \E s \in Accounts, p \in Posts, a \in Amounts : BeginSponsorPost(c, s, p, a)
  \/ \E t \in 1..MaxTx, b \in BOOLEAN : BeginProcessWithdrawal(c, t, b)

ExtStep(c, err) ==
  \/ DepInsert(c, err) \/ DepProfile(c, err) \/ DepUpdate(c, err)
  \/ WdProfile(c, err) \/ WdUpdate(c, err) \/ WdInsert(c, err)
  \/ SpProfile(c, err) \/ SpInsert(c, err) \/ SpBalance(c, err)
  \/ SpViews(c, err) \/ SpPost(c, err)
  \/ PwStatus(c, err) \/ PwSelect(c, err) \/ PwProfile(c, err) \/ PwRefund(c, err)

\* The ledger, one call at a time, every store call succeeding.
Next == LocalNext \/ ExtBegin(SeqClient) \/ ExtStep(SeqClient, FALSE)

Spec == Init /\ [][Next]_vars

\* Reactions, one call at a time, every store call succeeding.
NextReact ==
  \/ \E p \in Posts, r \in Reactions : LocalReactToPost(p, r)
  \/ \E p \in Posts, r \in Reactions : BeginReactToPost(SeqClient, p, r)
  \/ ReSelect(SeqClient, FALSE)
  \/ ReUpdate(SeqClient, FALSE)

SpecReact == Init /\ [][NextReact]_vars

\* Reactions on posts that are being sponsored, one call at a time, every
\* store call succeeding.
NextFeed ==
  \/ NextReact
  \/ \E p \in Posts, a \in SponsorAmounts : LocalSponsorPost(p, a)
  \/ \E u \in Accounts, p \in Posts, a \in SponsorAmounts : BeginSponsorPost(SeqClient, u, p, a)
  \/ SpProfile(SeqClient, FALSE) \/ SpInsert(SeqClient, FALSE) \/ SpBalance(SeqClient, FALSE)
  \/ SpViews(SeqClient, FALSE) \/ SpPost(SeqClient, FALSE)

SpecFeed == Init /\ [][NextFeed]_vars

\* The admin changes settings between withdrawals and sponsorships, one call
\* at a time, every store call succeeding.
NextSettings ==
  \/ \E patch \in Patches : LocalUpdateSettings(patch)
  \/ \E patch \in Patches : ExtUpdateSettings(patch)
  \/ \E u \in Accounts, a \in WalletAmounts : LocalRequestWithdraw(u, a)
  \/ \E u \in Accounts, a \in WalletAmounts : BeginRequestWithdraw(SeqClient, u, a)
  \/ WdProfile(SeqClient, FALSE) \/ WdUpdate(SeqClient, FALSE) \/ WdInsert(SeqClient, FALSE)
  \/ \E p \in Posts, a \in SponsorAmounts : LocalSponsorPost(p, a)
  \/ \E u \in Accounts, p \in Posts, a \in SponsorAmounts : BeginSponsorPost(SeqClient, u, p, a)
  \/ SpProfile(SeqClient, FALSE) \/ SpInsert(SeqClient, FALSE) \/ SpBalance(SeqClient, FALSE)
  \/ SpViews(SeqClient, FALSE) \/ SpPost(SeqClient, FALSE)

SpecSettings == Init /\ [][NextSettings]_vars

\* Sponsorships issued from two browser sessions, their store calls
\* interleaving freely, every store call succeeding.
NextConcurrent ==
  \E c \in Clients :
    \/ \E u \in Accounts, p \in Posts, a \in SponsorAmounts : BeginSponsorPost(c, u, p, a)
    \/ SpProfile(c, FALSE) \/ SpInsert(c, FALSE) \/ SpBalance(c, FALSE)
    \/ SpViews(c, FALSE) \/ SpPost(c, FALSE)

SpecConcurrent == Init /\ [][NextConcurrent]_vars

\* Reactions issued from two browser sessions, their store calls
\* interleaving freely, every store call succeeding.
NextReactConcurrent ==
  \E c \in Clients :
    \/ \E p \in Posts, r \in Reactions : BeginReactToPost(c, p, r)
    \/ ReSelect(c, FALSE)
    \/ ReUpdate(c, FALSE)

SpecReactConcurrent == Init /\ [][NextReactConcurrent]_vars

\* The account, and the post, that the two sessions contend for.
RaceAccount == "u1"
RacePost == "p1"
OwnerClient == "c1"
AdminClient == "c2"

\* The owner of an account deposits, requests withdrawals and sponsors from
\* one browser session while the administrator rejects transactions from
\* another, their store calls interleaving freely, every store call
\* succeeding.
NextRace ==
  \/ \E a \in SponsorAmounts : BeginRequestWithdraw(OwnerClient, RaceAccount, a)
  \/ \E a \in SponsorAmounts : BeginSponsorPost(OwnerClient, RaceAccount, RacePost, a)
  \/ \E a \in SponsorAmounts : BeginDeposit(OwnerClient, RaceAccount, a)
  \/ \E t \in 1..MaxTx : BeginProcessWithdrawal(AdminClient, t, FALSE)
  \/ \E c \in Clients : ExtStep(c, FALSE)

SpecRace == Init /\ [][NextRace]_vars

\* The feed: sponsorships of one post from two browser sessions, reactions
\* and feed reads, the store calls interleaving freely and succeeding.
NextViews ==
  \/ \E a \in ViewAmounts : LocalSponsorPost(RacePost, a)
  \/ \E g \in [Posts -> SponsoredGrowth \cup RegularGrowth] : LocalGetFeed(g)
  \/ LocalReactToPost(RacePost, "likes")
  \/ ExtGetFeed
  \/ \E c \in Clients :
       \/ \E a \in ViewAmounts : BeginSponsorPost(c, RaceAccount, RacePost, a)
       \/ SpProfile(c, FALSE) \/ SpInsert(c, FALSE) \/ SpBalance(c, FALSE)
       \/ SpViews(c, FALSE) \/ SpPost(c, FALSE)
       \/ BeginReactToPost(c, RacePost, "likes")
       \/ ReSelect(c, FALSE) \/ ReUpdate(c, FALSE)

SpecViews == Init /\ [][NextViews]_vars

\* ------------------------------------------------------------- Wallet
\* The account the page is signed in to, and what parseFloat makes of the
\* amount field: NaN for an empty field, or the number typed.
WalletUser == "u1"
DepositInputs == {NaN, 0, 56}

\* parseFloat(amount) || 100
DepositAmount(x) == IF x = NaN \/ x = 0 THEN 100 ELSE x

\* The tab buttons.
WalletSetTab(t) ==
  /\ wallet.tab # t
  /\ wallet' = [wallet EXCEPT !.tab = t]
  /\ last' = NoCall
  /\ UNCHANGED <<variant, ui, store, call, issued>>

\* Wallet.handleDeposit, run by the button that is rendered while the deposit
\* tab shows and qrState is 'IDLE': the indicator goes to 'LISTENING' and the
\* timer is set.
handleDeposit(x) ==
  /\ wallet.tab = "DEPOSIT" /\ wallet.qrState = "IDLE"
  /\ wallet' = [wallet EXCEPT !.qrState = "LISTENING", !.timer = TRUE,
                              !.amount = DepositAmount(x), !.calls = 0]
  /\ last' = NoCall
  /\ UNCHANGED <<variant, ui, store, call, issued>>

\* The timer fires and its callback calls deposit.
WalletTimerLocal == wallet.timer /\ LocalDeposit(WalletUser, wallet.amount)

WalletTimerExt == wallet.timer /\ BeginDeposit(SeqClient, WalletUser, wallet.amount)

\* window.location.reload(), 1.5 s after 'SUCCESS': the page is loaded again
\* and Wallet mounts afresh.
WalletReload ==
  /\ wallet.qrState = "SUCCESS"
  /\ wallet' = [WalletInit EXCEPT !.mount = 1 - wallet.mount]
  /\ last' = NoCall
  /\ UNCHANGED <<variant, ui, store, call, issued>>

\* The wallet page: deposits made through the indicator, each store call
\* succeeding or failing.
NextWallet ==
  \/ \E t \in {"DEPOSIT", "WITHDRAW"} : WalletSetTab(t)
  \/ \E x \in DepositInputs : handleDeposit(x)
  \/ WalletTimerLocal
  \/ WalletTimerExt
  \/ \E err \in BOOLEAN : DepInsert(SeqClient, err)
  \/ \E err \in BOOLEAN : DepProfile(SeqClient, err)
  \/ \E err \in BOOLEAN : DepUpdate(SeqClient, err)
  \/ WalletReload

SpecWallet == Init /\ [][NextWallet]_vars

\* The accounts the calls of the failure runs name: the seeded user, whose
\* balance a few calls exhaust.
FailAccounts == {"u1"}

\* The hosted ledger, one call at a time, each store call succeeding or
\* failing.
NextFail ==
  \/ \E u \in FailAccounts, a \in SponsorAmounts : BeginDeposit(SeqClient, u, a)
  \/ \E u \in FailAccounts, a \in SponsorAmounts : BeginRequestWithdraw(SeqClient, u, a)
  \/ \E u \in FailAccounts, p \in Posts, a \in SponsorAmounts :
       BeginSponsorPost(SeqClient, u, p, a)
  \/ \E t \in 1..MaxTx, b \in BOOLEAN : BeginProcessWithdrawal(SeqClient, t, b)
  \/ \E err \in BOOLEAN : ExtStep(SeqClient, err)

SpecFail == Init /\ [][NextFail]_vars

\* ------------------------------------------------- generateSamplePosts
\* The two revisions of the function.
GenSources == {"geminiService.ts", "part_001"}

\* What ai.models.generateContent does: it throws (network or API error), or
\* it resolves with a response whose text is undefined or one of these strings.
NoText == "undefined"
ReplyTexts == {NoText, "", "oops", "{}", "null", "[]", "[\"a\"]", "[\"a\",\"b\"]"}
Replies == {[throws |-> TRUE, text |-> NoText]} \cup
           {[throws |-> FALSE, text |-> t] : t \in ReplyTexts}

\* JSON.parse(text): it throws on text that is not JSON, else yields the value.
JsonParse(text) ==
  CASE text = "[]"            -> [throws |-> FALSE, isArray |-> TRUE,  items |-> <<>>]
    [] text = "[\"a\"]"       -> [throws |-> FALSE, isArray |-> TRUE,  items |-> <<"a">>]
    [] text = "[\"a\",\"b\"]" -> [throws |-> FALSE, isArray |-> TRUE,  items |-> <<"a", "b">>]
    [] text \in {"{}", "null"} -> [throws |-> FALSE, isArray |-> FALSE, items |-> <<>>]
    [] OTHER                  -> [throws |-> TRUE,  isArray |-> FALSE, items |-> <<>>]

\* The list returned when no key is found, and the one returned from catch.
NoKeyPosts == <<"crypto regulations", "bullish on USDT", "react.dev">>
CatchPosts == <<"System update", "Daily Reminder">>

\* A call is made in an environment: the revision in use, whether
\* process.env.API_KEY is set, and what the generation service will answer.
GenStart(src, envKey, reply) ==
  /\ gen = GenIdle
  /\ gen' = [pc |-> "key", src |-> src, envKey |-> envKey, reply |-> reply,
             settled |-> "pending", result |-> <<>>]
  /\ last' = NoCall
  /\ UNCHANGED <<variant, appUser, wallet, store, call, issued>>

GenResolve(list) ==
  gen' = [gen EXCEPT !.pc = "done", !.settled = "resolved", !.result = list]

\* apiKey: process.env.API_KEY, in part_001 with FALLBACK_KEY as the default;
\* if (!apiKey) return the three no-key posts.
GenKey ==
  /\ gen.pc = "key"
  /\ IF ~gen.envKey /\ gen.src = "geminiService.ts"
       THEN GenResolve(NoKeyPosts)
       ELSE gen' = [gen EXCEPT !.pc = "call"]
  /\ last' = NoCall
  /\ UNCHANGED <<variant, appUser, wallet, store, call, issued>>

\* await ai.models.generateContent(...); a throw lands in catch.
GenCall ==
  /\ gen.pc = "call"
  /\ IF gen.reply.throws
       THEN GenResolve(CatchPosts)
       ELSE gen' = [gen EXCEPT !.pc = "parse"]
  /\ last' = NoCall
  /\ UNCHANGED <<variant, appUser, wallet, store, call, issued>>

\* if (!text) return []; posts = JSON.parse(text);
\* return Array.isArray(posts) ? posts : [];
GenParse ==
  LET text   == gen.reply.text
      parsed == JsonParse(text)
  IN
  /\ gen.pc = "parse"
  /\ IF text = NoText \/ text = "" THEN GenResolve(<<>>)
     ELSE IF parsed.throws THEN GenResolve(CatchPosts)
     ELSE IF parsed.isArray THEN GenResolve(parsed.items)
     ELSE GenResolve(<<>>)
  /\ last' = NoCall
  /\ UNCHANGED <<variant, appUser, wallet, store, call, issued>>

NextGen ==
  \/ \E src \in GenSources, envKey \in BOOLEAN, reply \in Replies : GenStart(src, envKey, reply)
  \/ GenKey
  \/ GenCall
  \/ GenParse

SpecGen == Init /\ [][NextGen]_vars

\* ------------------------------------------------------- App: the session
\* User.role of the profile a sign-in returns.  MockDB.signIn returns the
\* stored user; DBService.signIn returns getUserProfile(id, email): the stored
\* role, ADMIN after part_002's auto-fix, or, if the read fails, the
\* placeholder whose role follows from the e-mail alone.
SignedInRole(a, err) ==
  IF variant = "local" THEN profiles[a].role
  ELSE IF err THEN (IF profiles[a].adminEmail THEN "ADMIN" ELSE "USER")
  ELSE IF OutOfSync(a) THEN "ADMIN"
  ELSE profiles[a].role

\* Auth.handleSubmit: signIn, then localStorage.setItem and onLogin(user).
Login(a, err) ==
  /\ appUser = LoggedOut
  /\ AllIdle
  /\ appUser' = [account |-> a, role |-> SignedInRole(a, err)]
  /\ profiles' = IF variant = "local" THEN profiles ELSE ProfilesAfterRead(a, err)
  /\ last' = NoCall
  /\ UNCHANGED <<variant, gen, wallet, posts, txlog, settings, call, issued>>

\* App.handleLogout
Logout ==
  /\ appUser # LoggedOut
  /\ AllIdle
  /\ appUser' = LoggedOut
  /\ last' = NoCall
  /\ UNCHANGED <<variant, gen, wallet, store, call, issued>>

\* Mutant: the /admin route renders the panel for every signed-in user.
AdminRouteAnyUser == appUser # LoggedOut

\* <Route path="/admin" element={user.role === UserRole.ADMIN ? <AdminPanel /> : ...}>
AdminRoute == appUser # LoggedOut /\ appUser.role = "ADMIN"

\* The wallet and the admin panel of the signed-in user, one call at a time,
\* every store call succeeding.
NextAdmin ==
  \/ \E a \in Accounts : Login(a, FALSE)
  \/ Logout
  \/ \E a \in SponsorAmounts : appUser # LoggedOut /\ LocalDeposit(appUser.account, a)
  \/ \E a \in SponsorAmounts : appUser # LoggedOut /\ LocalRequestWithdraw(appUser.account, a)
  \/ \E a \in SponsorAmounts : appUser # LoggedOut /\ BeginDeposit(SeqClient, appUser.account, a)
  \/ \E a \in SponsorAmounts :
       appUser # LoggedOut /\ BeginRequestWithdraw(SeqClient, appUser.account, a)
  \/ DepInsert(SeqClient, FALSE) \/ DepProfile(SeqClient, FALSE) \/ DepUpdate(SeqClient, FALSE)
  \/ WdProfile(SeqClient, FALSE) \/ WdUpdate(SeqClient, FALSE) \/ WdInsert(SeqClient, FALSE)
  \/ \E t \in 1..MaxTx, b \in BOOLEAN : AdminRoute /\ LocalProcessWithdrawal(t, b)
  \/ \E t \in 1..MaxTx, b \in BOOLEAN : AdminRoute /\ BeginProcessWithdrawal(SeqClient, t, b)
  \/ PwStatus(SeqClient, FALSE) \/ PwSelect(SeqClient, FALSE)
  \/ PwProfile(SeqClient, FALSE) \/ PwRefund(SeqClient, FALSE)
  \/ \E patch \in Patches : AdminRoute /\ LocalUpdateSettings(patch)
  \/ \E patch \in Patches : AdminRoute /\ ExtUpdateSettings(patch)

SpecAdmin == Init /\ [][NextAdmin]_vars


\* ------------------------------------------------------------------ claims
PreBalance(a) == last.pre.profiles[a].balance

\* C1: a requestWithdraw whose amount exceeds the account's balance throws
\* "Insufficient balance" and leaves that balance as it was, in each variant.
C1_WithdrawOverBalanceFails ==
  (last.op = "requestWithdraw" /\ last.args.amount > PreBalance(last.args.userId))
    => /\ last.result = "Insufficient balance"
       /\ profiles[last.args.userId].balance = PreBalance(last.args.userId)

C1_Witness ==
  /\ last.op = "requestWithdraw"
  /\ last.args.amount > PreBalance(last.args.userId)
  /\ last.result = "Insufficient balance"
  /\ Len(transactions) > 0

\* C2: a sponsorPost whose amount exceeds the payer's balance throws; the
\* post's sponsored flag and views, the log and the balances stay as they were.
C2_SponsorOverBalanceFails ==
  (last.op = "sponsorPost" /\ last.args.amount > PreBalance(last.args.userId))
    => /\ last.result = "Insufficient balance"
       /\ posts = last.pre.posts
       /\ transactions = last.pre.transactions
       /\ profiles = last.pre.profiles

C2_Witness ==
  /\ last.op = "sponsorPost"
  /\ last.args.amount > PreBalance(last.args.userId)
  /\ last.result = "Insufficient balance"
  /\ posts[last.args.postId].sponsored

\* C3: a deposit(userId, A) that returns leaves the account's balance at its
\* previous balance plus A (number addition) and the log one row longer, the
\* new row being DEPOSIT, COMPLETED, amount A, owner userId.
C3_DepositCreditsAndLogs ==
  (last.op = "deposit" /\ last.result = "ok")
    => /\ profiles[last.args.userId].balance
            = FAdd(PreBalance(last.args.userId), last.args.amount)
       /\ transactions = Append(last.pre.transactions,
              NewTx(last.args.userId, "DEPOSIT", last.args.amount, "COMPLETED", NoPost))

C3_Witness ==
  /\ last.op = "deposit"
  /\ last.result = "ok"
  /\ last.args.amount > 0
  /\ Len(last.pre.transactions) > 0

\* The transaction a returned processWithdrawal named, as it was at the call.
PreTx == last.pre.transactions[last.args.txId]

RejectedPendingWithdrawal ==
  /\ last.op = "processWithdrawal"
  /\ ~last.args.approved
  /\ last.args.txId \in DOMAIN last.pre.transactions
  /\ PreTx.type = "WITHDRAW"
  /\ PreTx.status = "PENDING"

\* C4: a successful requestWithdraw(u, W) from balance B whose transaction is
\* rejected next, nothing else having touched the account, leaves the balance
\* of u exactly B again and the transaction REJECTED.
C4_RoundTripRestoresBalance ==
  (/\ RejectedPendingWithdrawal
   /\ last.result = "ok"
   /\ issued.process = 1
   /\ last.args.txId = Len(last.pre.transactions))
    => /\ transactions[last.args.txId].status = "REJECTED"
       /\ profiles[PreTx.userId].balance = balanceBefore[last.args.txId]

\* C5: a requestWithdraw(u, W) that returns has debited W from the balance of u
\* (number subtraction) and appended one row WITHDRAW, PENDING, amount W, owner
\* u, no settlement having run; and with no call in flight, an account whose
\* only logged transaction is a PENDING withdrawal still holds the debited
\* balance.
C5_WithdrawDebitsAtRequest ==
  /\ (last.op = "requestWithdraw" /\ last.result = "ok")
       => /\ profiles[last.args.userId].balance
               = FSub(PreBalance(last.args.userId), last.args.amount)
          /\ transactions = Append(last.pre.transactions,
                 NewTx(last.args.userId, "WITHDRAW", last.args.amount, "PENDING", NoPost))
  /\ AllIdle =>
       \A t \in DOMAIN transactions :
         (/\ transactions[t].type = "WITHDRAW"
          /\ transactions[t].status = "PENDING"
          /\ \A o \in DOMAIN transactions \ {t} :
               transactions[o].userId # transactions[t].userId)
           => profiles[transactions[t].userId].balance
                = FSub(balanceBefore[t], transactions[t].amount)

C5_Witness ==
  /\ AllIdle
  /\ Len(transactions) = 2
  /\ issued.process = 1
  /\ transactions[1].type = "WITHDRAW"
  /\ transactions[1].status = "PENDING"
  /\ transactions[1].amount > 0
  /\ transactions[2].userId # transactions[1].userId
  /\ transactions[2].status = "REJECTED"

\* C6: a processWithdrawal(tx, true) that returns has set the status of tx to
\* COMPLETED and changed no balance, no other transaction and no post.
C6_ApproveOnlyFlipsStatus ==
  (/\ last.op = "processWithdrawal"
   /\ last.args.approved
   /\ last.args.txId \in DOMAIN last.pre.transactions)
    => /\ transactions = [last.pre.transactions EXCEPT ![last.args.txId].status = "COMPLETED"]
       /\ profiles = last.pre.profiles
       /\ posts = last.pre.posts

C6_Witness ==
  /\ last.op = "processWithdrawal"
  /\ last.args.approved
  /\ last.args.txId \in DOMAIN last.pre.transactions
  /\ PreTx.type = "WITHDRAW"
  /\ PreTx.status = "PENDING"
  /\ transactions[last.args.txId].status = "COMPLETED"
  /\ Len(transactions) = 2

\* C7: a processWithdrawal(tx, false) on a PENDING withdrawal sets it REJECTED
\* and leaves its owner's balance at the balance of rejection time plus
\* tx.amount (number addition), whatever that account did since the request;
\* no other balance changes.
C7_RejectRefundsCurrentBalance ==
  RejectedPendingWithdrawal
    => /\ transactions = [last.pre.transactions EXCEPT ![last.args.txId].status = "REJECTED"]
       /\ profiles = SetBalance(last.pre.profiles, PreTx.userId,
                                FAdd(PreBalance(PreTx.userId), PreTx.amount))

C7_Witness ==
  /\ RejectedPendingWithdrawal
  /\ last.args.txId = 1
  /\ Len(transactions) = 2
  /\ transactions[2].userId = transactions[1].userId
  /\ transactions[2].type \in {"DEPOSIT", "AD_SPEND"}
  /\ PreBalance(PreTx.userId) # FSub(balanceBefore[1], PreTx.amount)

\* C8: with no reaction call in flight, each counter of each post equals the
\* number of reactToPost calls issued for that post and kind (counters start
\* at 0), the calls having run one after another.
C8_ReactionsCountCalls ==
  AllIdle =>
    \A p \in Posts, k \in Reactions : posts[p][k] = issued.react[<<p, k>>]

C8_Witness ==
  /\ AllIdle
  /\ ReactIssued = MaxReact
  /\ \E p \in Posts, k \in Reactions : posts[p][k] >= 2

\* The net of the log for account a over its first n rows, summed in log
\* order with the program's arithmetic: COMPLETED deposits count up, COMPLETED
\* withdrawals and ad-spend rows count down.
RECURSIVE NetOfLog(_, _, _)
NetOfLog(a, initial, n) ==
  IF n = 0 THEN initial
  ELSE LET t    == transactions[n]
           prev == NetOfLog(a, initial, n - 1)
       IN IF t.userId # a THEN prev
          ELSE IF t.type = "DEPOSIT" /\ t.status = "COMPLETED" THEN FAdd(prev, t.amount)
          ELSE IF t.type = "WITHDRAW" /\ t.status = "COMPLETED" THEN FSub(prev, t.amount)
          ELSE IF t.type = "AD_SPEND" THEN FSub(prev, t.amount)
          ELSE prev

\* C9: with no call in flight, each account's balance equals its initial
\* balance plus its COMPLETED deposits minus its COMPLETED withdrawals minus
\* its ad-spend rows.
C9_BalanceIsNetOfLog ==
  AllIdle =>
    \E b \in InitUserBalances :
      \A a \in Accounts :
        profiles[a].balance = NetOfLog(a, InitProfiles(b)[a].balance, Len(transactions))

\* C10: every balance is non-negative in every reachable state, whatever the
\* sign of the amounts passed to the ledger calls.
C10_BalancesNonNegative ==
  \A a \in Accounts : profiles[a].balance >= 0

\* C11: a transaction's status changes at most once: DEPOSIT and AD_SPEND rows
\* stay COMPLETED, a WITHDRAW row leaves PENDING for COMPLETED or REJECTED and
\* is never changed after that.
C11_StatusChangesAtMostOnce ==
  [][\A t \in DOMAIN transactions :
       /\ transactions[t].type \in {"DEPOSIT", "AD_SPEND"}
            => transactions'[t].status = "COMPLETED"
       /\ (transactions[t].type = "WITHDRAW" /\ transactions[t].status # "PENDING")
            => transactions'[t].status = transactions[t].status
       /\ (transactions[t].type = "WITHDRAW" /\ transactions[t].status = "PENDING")
            => transactions'[t].status \in {"PENDING", "COMPLETED", "REJECTED"}]_vars

\* C12: the log is append-only: no step removes a row or changes the owner,
\* kind, amount or post of an existing row; a step lengthens the log by at
\* most one row; and every deposit, requestWithdraw or sponsorPost that
\* returns has lengthened it by exactly one.
C12_LogAppendOnly ==
  [][/\ Len(transactions') \in {Len(transactions), Len(transactions) + 1}
     /\ \A t \in DOMAIN transactions :
          /\ transactions'[t].userId = transactions[t].userId
          /\ transactions'[t].type = transactions[t].type
          /\ transactions'[t].amount = transactions[t].amount
          /\ transactions'[t].postId = transactions[t].postId
     /\ (last'.op \in {"deposit", "requestWithdraw", "sponsorPost"} /\ last'.result = "ok")
          => Len(transactions') = Len(last'.pre.transactions) + 1
     /\ last'.op = "processWithdrawal"
          => Len(transactions') = Len(last'.pre.transactions)]_vars

C12_Witness ==
  /\ Len(transactions) = MaxTx
  /\ transactions[1].status = "REJECTED"
  /\ last.op \in {"deposit", "requestWithdraw", "sponsorPost"}
  /\ last.result = "ok"

\* C13: a sponsorPost(post, amount) that returns has debited amount from the
\* payer's balance (number subtraction), appended one row AD_SPEND, COMPLETED,
\* of that amount and post, owned by the payer, and set the post's sponsored
\* flag.
C13_SponsorDebitsLogsAndFlags ==
  (last.op = "sponsorPost" /\ last.result = "ok")
    => /\ profiles[last.args.userId].balance
            = FSub(PreBalance(last.args.userId), last.args.amount)
       /\ transactions = Append(last.pre.transactions,
              NewTx(last.args.userId, "AD_SPEND", last.args.amount, "COMPLETED",
                    last.args.postId))
       /\ posts[last.args.postId].sponsored

C13_Witness ==
  /\ last.op = "sponsorPost"
  /\ last.result = "ok"
  /\ last.args.amount > 0
  /\ ~last.pre.posts[last.args.postId].sponsored
  /\ posts[last.args.postId].userId # last.args.userId

\* a <= b on numbers: false if an operand is NaN.
Le(a, b) == a # NaN /\ b # NaN /\ a <= b

\* C14: in MockDB a requestWithdraw returns only if minWithdraw <= amount <=
\* balance, with minWithdraw as the settings hold it at the call; it throws
\* otherwise, also when amount <= balance, leaving balance and log unchanged.
C14_WithdrawNeedsMinimum ==
  (variant = "local" /\ last.op = "requestWithdraw")
    => /\ last.result = "ok"
            <=> /\ Le(last.pre.settings["minWithdraw"], last.args.amount)
                /\ Le(last.args.amount, PreBalance(last.args.userId))
       /\ last.result # "ok"
            => /\ profiles = last.pre.profiles
               /\ transactions = last.pre.transactions

\* C17: an updateSettings(patch) that returns leaves each settings field at
\* the patch's value if the patch has it and at its old value otherwise, and
\* balances, posts and log as they were; settings change in no other step, and
\* the next sponsorPost computes its views, and the next MockDB requestWithdraw
\* its minimum check, from the merged settings.
C17_UpdateSettingsMerges ==
  /\ [](/\ last.op = "updateSettings"
             => /\ DOMAIN settings = SettingKeys
                /\ \A k \in SettingKeys :
                     settings[k] = IF k \in DOMAIN last.args.patch
                                     THEN last.args.patch[k]
                                     ELSE last.pre.settings[k]
                /\ profiles = last.pre.profiles
                /\ posts = last.pre.posts
                /\ transactions = last.pre.transactions
        /\ (last.op = "sponsorPost" /\ last.result = "ok")
             => posts[last.args.postId].views
                  = last.pre.posts[last.args.postId].views
                    + (IF variant = "ext2"
                         THEN (last.args.amount * 10000)
                                \div settings["sponsorAdPricePer1kViews"]
                         ELSE ((last.args.amount * 1000000)
                                \div settings["adCostPer100kViews"]) \div 10)
        /\ (/\ variant = "local"
            /\ last.op = "requestWithdraw"
            /\ Le(last.args.amount, PreBalance(last.args.userId))
            /\ Lt(last.args.amount, settings["minWithdraw"]))
             => last.result = "Minimum withdraw")
  /\ [][settings' # settings => last'.op = "updateSettings"]_vars

C17_Witness ==
  /\ last.op = "sponsorPost"
  /\ last.result = "ok"
  /\ settings # DEFAULT_SETTINGS
  /\ \/ variant = "ext2" /\ settings["sponsorAdPricePer1kViews"] # DefaultSponsorPriceTenths
     \/ variant # "ext2" /\ settings["adCostPer100kViews"] # DefaultAdCostTenths

\* C15: a ledger call naming an account, post or transaction that does not
\* exist ends in a thrown failure.
C15_UnknownIdsThrow ==
  (\/ last.op \in {"deposit", "requestWithdraw"} /\ last.args.userId \notin Accounts
   \/ last.op \in {"sponsorPost", "reactToPost"} /\ last.args.postId \notin Posts
   \/ last.op = "processWithdrawal" /\ last.args.txId \notin DOMAIN last.pre.transactions)
    => last.result # "ok"

\* C16: a processWithdrawal or updateSettings call is issued only from a
\* session whose account has role ADMIN in the store.
C16_SettlementAndSettingsAdminOnly ==
  [][(issued.process' # issued.process \/ issued.settings' # issued.settings)
       => /\ appUser.account \in Accounts
          /\ profiles[appUser.account].role = "ADMIN"]_vars

C16_Witness ==
  /\ last.op = "processWithdrawal"
  /\ last.args.txId \in DOMAIN transactions
  /\ transactions[last.args.txId].userId = "u1"
  /\ transactions[last.args.txId].status = "REJECTED"
  /\ appUser.account = "admin"
  /\ issued.settings = 1

\* C18: a reactToPost(post, kind) that returns has raised that counter of that
\* post by one and changed nothing else: not the post's other counters, views
\* or sponsored flag, no other post, no balance and not the log.
C18_ReactionChangesOneCounter ==
  last.op = "reactToPost"
    => /\ posts = [last.pre.posts EXCEPT
                     ![last.args.postId][last.args.reaction] = @ + 1]
       /\ profiles = last.pre.profiles
       /\ transactions = last.pre.transactions

C18_Witness ==
  /\ last.op = "reactToPost"
  /\ posts[last.args.postId].sponsored
  /\ posts[last.args.postId].views > 0
  /\ \E k \in Reactions \ {last.args.reaction} : posts[last.args.postId][k] > 0
  /\ Len(transactions) > 0

\* The content-generation call of this run failed: no credential, an error
\* from the service, or a response that is empty, not JSON, or not an array.
GenFailed ==
  \/ gen.src = "geminiService.ts" /\ ~gen.envKey
  \/ gen.reply.throws
  \/ gen.reply.text \in {NoText, "", "oops", "{}", "null"}

\* C19: generateSamplePosts never rejects, and whenever the content-generation
\* call fails it resolves with one of the hardcoded lists, which are not empty.
C19_GenerateFallsBack ==
  gen.pc = "done"
    => /\ gen.settled = "resolved"
       /\ GenFailed => (gen.result \in {NoKeyPosts, CatchPosts} /\ Len(gen.result) > 0)

\* C20: in the DBService variants a sponsorPost writes the balance it read at
\* its check minus its amount, whatever the balance has become, and does not
\* check again: once past the check it returns successfully.  So two
\* overlapping calls on one account with a1 <= B, a2 <= B, a1 + a2 > B both
\* succeed, and both rows are logged against a debit of less than a1 + a2.
C20_ConcurrentSponsorsBothSucceed ==
  [][\A c \in Clients :
       /\ (call[c].pc = "sp_balance" /\ call'[c].pc = "sp_views")
            => profiles'[call[c].args.userId].balance
                 = FSub(call[c].rdBalance, call[c].args.amount)
       /\ (/\ call[c].op = "sponsorPost"
           /\ call[c].pc \in {"sp_insert", "sp_balance", "sp_views", "sp_post"}
           /\ call'[c].pc = "idle")
            => last'.result = "ok"]_vars

C20_Witness ==
  /\ AllIdle
  /\ Len(transactions) = 2
  /\ \A t \in {1, 2} : transactions[t].type = "AD_SPEND" /\ transactions[t].status = "COMPLETED"
  /\ transactions[1].userId = transactions[2].userId
  /\ balanceBefore[1] = balanceBefore[2]
  /\ transactions[1].amount <= balanceBefore[1]
  /\ transactions[2].amount <= balanceBefore[1]
  /\ transactions[1].amount + transactions[2].amount > balanceBefore[1]
  /\ profiles[transactions[1].userId].balance
       > balanceBefore[1] - (transactions[1].amount + transactions[2].amount)

\* C21: in the DBService variants reactToPost writes the counter it selected
\* plus 1, whatever the counter has become since, and returns normally.  So
\* two calls on the same post and kind that both select before either updates
\* leave the counter one higher, not two: an increment is lost.
C21_ReactionWritesValueReadPlusOne ==
  [][\A c \in Clients :
       (call[c].pc = "re_update" /\ call'[c].pc = "idle")
         => /\ posts'[call[c].args.postId][call[c].args.reaction] = call[c].rdVal + 1
            /\ last'.result = "ok"]_vars

C21_Witness ==
  /\ AllIdle
  /\ \E p \in Posts, r \in Reactions :
       /\ issued.react[<<p, r>>] = 2
       /\ posts[p][r] = 1

\* C22: in the DBService variants every balance write of deposit,
\* requestWithdraw, sponsorPost and the refund of processWithdrawal stores the
\* balance its own call read earlier plus or minus its amount, whatever other
\* calls have written to the account in between, and a call that is past its
\* balance check returns without an error.  So when two such calls on one
\* account overlap, the later write erases the earlier one: both rows are in
\* the log and the credit or debit of one of them is missing from the balance.
C22_BalanceWritesUseStaleRead ==
  [][\A c \in Clients :
       /\ (call[c].pc = "dep_update" /\ call'[c].pc = "idle")
            => profiles'[call[c].args.userId].balance
                 = FAdd(call[c].rdBalance, call[c].args.amount)
       /\ (call[c].pc = "wd_update" /\ call'[c].pc = "wd_insert")
            => profiles'[call[c].args.userId].balance
                 = FSub(call[c].rdBalance, call[c].args.amount)
       /\ (call[c].pc = "sp_balance" /\ call'[c].pc = "sp_views")
            => profiles'[call[c].args.userId].balance
                 = FSub(call[c].rdBalance, call[c].args.amount)
       /\ (call[c].pc = "pw_refund" /\ call'[c].pc = "idle")
            => profiles'[call[c].rdTx.userId].balance
                 = FAdd(call[c].rdBalance, call[c].rdTx.amount)
       /\ (call[c].pc \notin {"idle", "wd_profile", "sp_profile"} /\ call'[c].pc = "idle")
            => last'.result = "ok"]_vars

\* A withdrawal request issued at balance B was rejected while a deposit of
\* the same account was in flight; both returned and both rows are logged,
\* but the balance is B, not B + deposit: one of the two credits is missing.
C22_Witness ==
  /\ AllIdle
  /\ issued.process = 1
  /\ Len(transactions) = 2
  /\ transactions[1].type = "WITHDRAW" /\ transactions[1].status = "REJECTED"
  /\ transactions[2].type = "DEPOSIT" /\ transactions[2].status = "COMPLETED"
  /\ transactions[1].userId = transactions[2].userId
  /\ transactions[2].amount > 0
  /\ profiles[transactions[1].userId].balance = balanceBefore[1]

\* C23: in the DBService variants, once deposit or sponsorPost has inserted
\* its transaction, no later step of the call removes or alters a row of the
\* log, whether its store call succeeds or fails, and the call returns
\* normally: a failed balance write is neither reported nor compensated.
C23_NoCompensationAfterInsert ==
  [][\A c \in Clients :
       call[c].pc \in {"dep_profile", "dep_update", "sp_balance", "sp_views", "sp_post"}
         => /\ transactions' = transactions
            /\ call'[c].pc = "idle" => last'.result = "ok"]_vars

\* A deposit has returned with its row in the log and every balance as it
\* was before the call.
C23_Witness ==
  /\ last.op = "deposit" /\ last.result = "ok"
  /\ last.args.amount > 0
  /\ Len(transactions) = Len(last.pre.transactions) + 1
  /\ transactions[Len(transactions)].type = "DEPOSIT"
  /\ transactions[Len(transactions)].status = "COMPLETED"
  /\ profiles = last.pre.profiles

\* C24: in the DBService variants deposit inserts its COMPLETED transaction
\* before it touches the balance: a step of a deposit that changes a balance
\* starts in a state where the row of that deposit is already in the log, and
\* a deposit that threw (its insert failed) left balances and log as they
\* were when it was called.
C24_DepositLogsBeforeCrediting ==
  /\ [](last.op = "deposit" /\ last.result # "ok"
          => profiles = last.pre.profiles /\ transactions = last.pre.transactions)
  /\ [][\A c \in Clients :
          call[c].op = "deposit" /\ profiles' # profiles
            => \E t \in DOMAIN transactions :
                 /\ t > Len(call[c].pre.transactions)
                 /\ transactions[t] = NewTx(call[c].args.userId, "DEPOSIT",
                                            call[c].args.amount, "COMPLETED", NoPost)]_vars

\* A deposit of a positive amount has thrown.
C24_Witness ==
  /\ last.op = "deposit" /\ last.result = "store error"
  /\ last.args.amount > 0

\* C25: a sponsorPost that returns normally raises the views of its post by
\* floor(0.1 * floor(amount / adCostPer100kViews * 100000)) in MockDB and in
\* the DBService of mockDb.ts, and by
\* floor(amount / sponsorAdPricePer1kViews * 1000) in the DBService of
\* part_002, with the rate in force when the call was made (rates are kept in
\* tenths); the views of the other posts do not change.
C25_SponsorRaisesViewsByFormula ==
  (last.op = "sponsorPost" /\ last.result = "ok" /\ last.args.postId \in Posts)
    => LET rate == last.pre.settings
           amount == last.args.amount
           estimated == IF variant = "ext2"
                          THEN (amount * 1000 * 10) \div rate["sponsorAdPricePer1kViews"]
                          ELSE (amount * 100000 * 10) \div rate["adCostPer100kViews"]
           boost == IF variant = "ext2" THEN estimated ELSE estimated \div 10
       IN \A p \in Posts :
            posts[p].views = last.pre.posts[p].views
                               + (IF p = last.args.postId THEN boost ELSE 0)

\* A sponsorship in the part_002 revision, made after the price was changed.
C25_Witness ==
  /\ last.op = "sponsorPost" /\ last.result = "ok"
  /\ variant = "ext2"
  /\ last.pre.settings["sponsorAdPricePer1kViews"] # DefaultSponsorPriceTenths
  /\ posts[last.args.postId].views > last.pre.posts[last.args.postId].views

\* The balance account a should have after the first n rows of the log if
\* funds are conserved, accumulated in log order with the program's
\* arithmetic: COMPLETED deposits count up, PENDING and COMPLETED withdrawals
\* and COMPLETED ad-spend rows count down, REJECTED rows count for nothing.
RECURSIVE Conserved(_, _, _)
Conserved(a, initial, n) ==
  IF n = 0 THEN initial
  ELSE LET tx == transactions[n]
           before == Conserved(a, initial, n - 1)
       IN IF tx.userId # a THEN before
          ELSE IF tx.type = "DEPOSIT" /\ tx.status = "COMPLETED" THEN FAdd(before, tx.amount)
          ELSE IF tx.type = "WITHDRAW" /\ tx.status \in {"PENDING", "COMPLETED"}
            THEN FSub(before, tx.amount)
          ELSE IF tx.type = "AD_SPEND" /\ tx.status = "COMPLETED" THEN FSub(before, tx.amount)
          ELSE before

\* C26: after any sequence of calls, made one at a time with every store call
\* succeeding and every logged amount positive, each account's balance plus
\* its PENDING and COMPLETED withdrawals plus its ad-spend equals its initial
\* balance plus its COMPLETED deposits.
C26_FundsConserved ==
  (AllIdle /\ \A t \in DOMAIN transactions : transactions[t].amount > 0)
    => \E b \in InitUserBalances :
         \A a \in Accounts :
           profiles[a].balance = Conserved(a, InitProfiles(b)[a].balance, Len(transactions))

\* C27: a processWithdrawal call credits the owner of its transaction only
\* when it rejects a WITHDRAW that is PENDING, and then by the amount of the
\* transaction, once; approving, rejecting a settled withdrawal and rejecting
\* a DEPOSIT or AD_SPEND row leave every balance as it was.  (A rejection
\* settles the row, so the credits of one transaction never add up to more
\* than its amount.)
C27_RefundOnlyPendingWithdrawals ==
  (last.op = "processWithdrawal" /\ last.args.txId \in DOMAIN last.pre.transactions)
    => IF /\ ~last.args.approved
          /\ PreTx.type = "WITHDRAW"
          /\ PreTx.status = "PENDING"
         THEN profiles = SetBalance(last.pre.profiles, PreTx.userId,
                                    FAdd(PreBalance(PreTx.userId), PreTx.amount))
         ELSE profiles = last.pre.profiles

\* C28: a deposit, requestWithdraw, sponsorPost or processWithdrawal that
\* ends in a thrown failure, whether a validation failed or a store call did,
\* leaves balances, log and posts exactly as they were when it was called.
C28_ThrownCallsChangeNothing ==
  (/\ last.op \in {"deposit", "requestWithdraw", "sponsorPost", "processWithdrawal"}
   /\ last.result # "ok")
    => /\ profiles = last.pre.profiles
       /\ transactions = last.pre.transactions
       /\ posts = last.pre.posts

\* C29: in the DBService variants a deposit of a positive amount never leaves
\* the account's balance lower than it was when the deposit was called,
\* whether the store calls of the deposit succeed or fail.
C29_DepositNeverLowersBalance ==
  (last.op = "deposit" /\ last.args.amount > 0 /\ last.args.userId \in Accounts)
    => profiles[last.args.userId].balance >= PreBalance(last.args.userId)

\* C30: in every reachable state, the states between the store calls of a
\* sponsorPost included, every post whose sponsored flag is set is referenced
\* by at least one COMPLETED AD_SPEND transaction, and no step clears a
\* sponsored flag.
C30_SponsoredPostsHaveCompletedSpend ==
  /\ [](\A p \in Posts :
          posts[p].sponsored
            => \E t \in DOMAIN transactions :
                 /\ transactions[t].type = "AD_SPEND"
                 /\ transactions[t].status = "COMPLETED"
                 /\ transactions[t].postId = p)
  /\ [][\A p \in Posts : posts[p].sponsored => posts'[p].sponsored]_vars

\* C31: no step lowers the view counter of a post, over every sequence and
\* interleaving of sponsorPost calls with positive amounts, reactToPost calls
\* and feed reads.
C31_ViewsNeverDecrease ==
  [][\A p \in Posts : posts'[p].views >= posts[p].views]_vars

\* What a ledger call must leave behind, as a function of the call and of
\* the store it was issued on alone: whether it succeeds, the balances and
\* the log.
LedgerOutcome(op, args, pre) ==
  LET bal(u) == pre.profiles[u].balance IN
  IF op = "deposit"
    THEN [ok |-> TRUE,
          profiles |-> SetBalance(pre.profiles, args.userId,
                                  FAdd(bal(args.userId), args.amount)),
          transactions |-> Append(pre.transactions,
                                  NewTx(args.userId, "DEPOSIT", args.amount,
                                        "COMPLETED", NoPost))]
  ELSE IF op = "requestWithdraw"
    THEN IF Lt(bal(args.userId), args.amount)
           THEN [ok |-> FALSE, profiles |-> pre.profiles,
                 transactions |-> pre.transactions]
           ELSE [ok |-> TRUE,
                 profiles |-> SetBalance(pre.profiles, args.userId,
                                         FSub(bal(args.userId), args.amount)),
                 transactions |-> Append(pre.transactions,
                                         NewTx(args.userId, "WITHDRAW", args.amount,
                                               "PENDING", NoPost))]
  ELSE LET tx == pre.transactions[args.txId] IN
       [ok |-> TRUE,
        profiles |-> IF args.approved THEN pre.profiles
                     ELSE SetBalance(pre.profiles, tx.userId,
                                     FAdd(bal(tx.userId), tx.amount)),
        transactions |-> [pre.transactions EXCEPT ![args.txId].status =
                             IF args.approved THEN "COMPLETED" ELSE "REJECTED"]]

\* The calls the equivalence covers: an existing account and a positive
\* amount not below the minimum withdrawal, or an existing transaction.
LedgerCallCovered ==
  \/ /\ last.op = "deposit"
     /\ last.args.userId \in Accounts /\ last.args.amount > 0
  \/ /\ last.op = "requestWithdraw"
     /\ last.args.userId \in Accounts /\ last.args.amount > 0
     /\ Le(last.pre.settings["minWithdraw"], last.args.amount)
  \/ /\ last.op = "processWithdrawal"
     /\ last.args.txId \in DOMAIN last.pre.transactions

\* C32: MockDB and DBService are interchangeable on the ledger.  Made one at
\* a time with every store call succeeding, a deposit, requestWithdraw or
\* processWithdrawal on an existing account or transaction, with a positive
\* amount not below the minimum withdrawal, ends in every variant with the
\* same outcome (success or failure), the same balances and the same log,
\* all three determined by the call and the store it was issued on; so equal
\* sequences of calls leave the variants in equal states.
C32_LedgerVariantsAgree ==
  LedgerCallCovered
    => LET expected == LedgerOutcome(last.op, last.args, last.pre) IN
       /\ (last.result = "ok") = expected.ok
       /\ profiles = expected.profiles
       /\ transactions = expected.transactions

\* The DBService of part_002 has rejected a pending withdrawal.
C32_Witness ==
  /\ variant = "ext2"
  /\ LedgerCallCovered
  /\ last.op = "processWithdrawal" /\ ~last.args.approved
  /\ PreTx.type = "WITHDRAW" /\ PreTx.status = "PENDING"
  /\ PreTx.amount > 0

\* C33: a sponsorPost that returns normally changes the balance of one
\* account only, the account its appended AD_SPEND row names: the owner of
\* the post in MockDB, the signed-in caller in the DBService variants.
C33_SponsorDebitsTheAccountLogged ==
  (last.op = "sponsorPost" /\ last.result = "ok" /\ last.args.postId \in Posts)
    => LET payer == IF variant = "local"
                      THEN last.pre.posts[last.args.postId].userId
                      ELSE last.args.userId
           row == transactions[Len(transactions)]
       IN /\ Len(transactions) = Len(last.pre.transactions) + 1
          /\ row.type = "AD_SPEND" /\ row.userId = payer
          /\ profiles = SetBalance(last.pre.profiles, payer,
                                   FSub(PreBalance(payer), last.args.amount))

\* In a DBService variant an account has sponsored a post it does not own.
C33_Witness ==
  /\ Ext
  /\ last.op = "sponsorPost" /\ last.result = "ok"
  /\ last.args.amount > 0
  /\ posts[last.args.postId].userId # last.args.userId
  /\ profiles[last.args.userId].balance < PreBalance(last.args.userId)

C35_DepositIndicatorProtocol ==
  /\ [](/\ wallet.qrState = "LISTENING" => (wallet.timer \/ wallet.awaiting)
        /\ wallet.awaiting => call[SeqClient].op = "deposit"
        /\ wallet.calls <= 1)
  /\ [][/\ (wallet'.mount = wallet.mount /\ wallet'.qrState # wallet.qrState)
            => \/ wallet.qrState = "IDLE" /\ wallet'.qrState = "LISTENING"
               \/ wallet.qrState = "LISTENING" /\ wallet'.qrState \in {"SUCCESS", "IDLE"}
        /\ (wallet'.qrState = "SUCCESS" /\ wallet.qrState # "SUCCESS")
            => last'.op = "deposit" /\ last'.result = "ok"
        /\ (last'.op = "deposit" /\ last'.result # "ok")
            => wallet'.qrState = "IDLE"]_vars

\* A deposit made through the indicator has thrown, after an earlier one
\* succeeded and the page was loaded again.
C35_Witness ==
  /\ wallet.mount = 1
  /\ wallet.qrState = "IDLE" /\ wallet.calls = 1
  /\ last.op = "deposit" /\ last.result # "ok"

=============================================================================
